---- MODULE Spec2Model ----
(***************************************************************************)
(* A model of the OCI driver core of diesel-oci:                           *)
(*   src/oracle/connection/raw.rs    (environment, connection, URL parser) *)
(*   src/oracle/connection/stmt.rs   (statement: prepare, bind, run, ...)  *)
(*   src/oracle/connection/cursor.rs (field, cursor)                       *)
(*                                                                         *)
(* Strings are sequences of one-character strings.  The native library is  *)
(* the environment of the program: the status every native call returns is *)
(* chosen nondeterministically from the statuses the call can report.      *)
(***************************************************************************)
EXTENDS Integers, Sequences, FiniteSets, TLC

VARIABLES
    url,        \* the connection string handed to parse_db_string / establish
    parsed,     \* what parse_db_string(url) returned (NotCalled before the call)
    handles,    \* the native handles allocated so far: handle id -> [htype]
    released,   \* every native release call made so far, in call order
    conn,       \* the RawConnection, its Environment and its Rc strong count
    stmts,      \* the Statements: slot -> Statement
    cursors,    \* the Cursors: slot -> Cursor, with the Fields it owns
    op,         \* the operation that ran last: its name, inputs and result
    trace,      \* the native calls the last operation made, in call order
    panicked    \* a panic has unwound out of an operation

vars == <<url, parsed, handles, released, conn, stmts, cursors, op, trace, panicked>>

(***************************************************************************)
(* Text helpers (std::str)                                                 *)
(***************************************************************************)

\* str::starts_with
StartsWith(s, p) ==
    /\ Len(s) >= Len(p)
    /\ SubSeq(s, 1, Len(p)) = p

\* whether pat occurs in s at (1-based) position i
MatchAt(s, pat, i) ==
    /\ i >= 1
    /\ i + Len(pat) - 1 <= Len(s)
    /\ SubSeq(s, i, i + Len(pat) - 1) = pat

\* str::find: the 1-based position of the first occurrence of pat, 0 for None
Find(s, pat) ==
    LET hits == {i \in 1..Len(s) : MatchAt(s, pat, i)}
    IN  IF hits = {} THEN 0
        ELSE CHOOSE i \in hits : \A j \in hits : i <= j

\* str::contains
Contains(s, pat) == Find(s, pat) # 0

\* str::split(pat).collect(): the pieces between the leftmost non-overlapping
\* occurrences of pat; a string without an occurrence is one piece
RECURSIVE Split(_, _)
Split(s, pat) ==
    LET i == Find(s, pat)
    IN  IF i = 0 THEN <<s>>
        ELSE <<SubSeq(s, 1, i - 1)>> \o Split(SubSeq(s, i + Len(pat), Len(s)), pat)

\* String::pop: drops the last character, if there is one
Pop(s) == IF Len(s) = 0 THEN s ELSE SubSeq(s, 1, Len(s) - 1)

(***************************************************************************)
(* parse_db_string (raw.rs)                                                *)
(***************************************************************************)

SchemePrefix == <<"o", "c", "i", ":", "/", "/">>
DoubleSlash == <<"/", "/">>
Slash == <<"/">>

NotCalled == [tag |-> "NotCalled"]
ParseOk(user, password, db_url) ==
    [tag |-> "Ok", user |-> user, password |-> password, db_url |-> db_url]
ParseErr(kind) == [tag |-> "Err", kind |-> kind]
\* a panic unwinds out of the function: assert_eq! or an index out of bounds
ParsePanic(at) == [tag |-> "Panic", at |-> at]

\* parse_db_string with the pop of the password left out
parse_db_string_keeps_delimiter(database_url) ==
    IF ~StartsWith(database_url, SchemePrefix)
    THEN ParseErr("InvalidConnectionUrl")
    ELSE LET splits == Split(database_url, DoubleSlash)
         IN  IF Len(splits) # 3
             THEN ParsePanic("assert_eq")
             ELSE LET userandpw == Split(splits[2], Slash)
                  IN  IF Len(userandpw) < 2
                      THEN ParsePanic("index")
                      ELSE ParseOk(userandpw[1], userandpw[2], splits[3])

\* parse_db_string looking for the scheme anywhere in the input
parse_db_string_scheme_anywhere(database_url) ==
    IF ~Contains(database_url, SchemePrefix)
    THEN ParseErr("InvalidConnectionUrl")
    ELSE LET splits == Split(database_url, DoubleSlash)
         IN  IF Len(splits) # 3
             THEN ParsePanic("assert_eq")
             ELSE LET userandpw == Split(splits[2], Slash)
                  IN  IF Len(userandpw) < 2
                      THEN ParsePanic("index")
                      ELSE ParseOk(userandpw[1], Pop(userandpw[2]), splits[3])

parse_db_string(database_url) ==
    IF ~StartsWith(database_url, SchemePrefix)
    THEN ParseErr("InvalidConnectionUrl")
    ELSE LET splits == Split(database_url, DoubleSlash)
         IN  IF Len(splits) # 3
             THEN ParsePanic("assert_eq")
             ELSE LET userandpw == Split(splits[2], Slash)
                  IN  IF Len(userandpw) < 2
                      THEN ParsePanic("index")
                      ELSE ParseOk(userandpw[1], Pop(userandpw[2]), splits[3])

(***************************************************************************)
(* Inputs                                                                  *)
(***************************************************************************)

MaxBodyLen == 7

UrlAlphabet == {"/", "@", "u"}

RECURSIVE StringsUpTo(_, _)
StringsUpTo(alphabet, n) ==
    IF n = 0 THEN {<<>>}
    ELSE LET shorter == StringsUpTo(alphabet, n - 1)
         IN  shorter \cup {Append(s, c) : s \in shorter, c \in alphabet}

\* what precedes the body: the scheme prefix and near misses of it
UrlPrefixes ==
    { SchemePrefix,
      <<>>,
      <<"o", "c", "i", ":", "/">>,
      <<"O", "C", "I", ":", "/", "/">>,
      <<"x", "o", "c", "i", ":", "/", "/">> }

\* the inputs of tests::check_parse_database_url_1 and _2
TestUrl1 ==
    << "o", "c", "i", ":", "/", "/", "u", "s", "e", "r", "/", "p", "a", "s",
       "s", "w", "o", "r", "d", "@", "/", "/", "l", "o", "c", "a", "l", "h",
       "o", "s", "t", ":", "1", "2", "3", "4", "/", "m", "y", "_", "d", "a",
       "t", "a", "b", "a", "s", "e" >>

TestUrl2 ==
    << "o", "c", "i", ":", "/", "/", "u", "s", "e", "r", "/", "p", "a", "s",
       "s", "w", "o", "r", "d", "@", "/", "/", "l", "o", "c", "a", "l", "h",
       "o", "s", "t", "/", "m", "y", "_", "d", "a", "t", "a", "b", "a", "s",
       "e" >>

UrlInputs ==
    {p \o b : p \in UrlPrefixes, b \in StringsUpTo(UrlAlphabet, MaxBodyLen)}
    \cup {TestUrl1, TestUrl2}

(***************************************************************************)
(* The native library                                                      *)
(***************************************************************************)

\* what a native call reports: its status and, for OCI_ERROR, what a later
\* OCIErrorGet on the error handle finds: no record (OCI_NO_DATA), a message,
\* or a message that is not UTF-8
Outcome(st, diag) == [st |-> st, diag |-> diag]

Success == Outcome("OCI_SUCCESS", "-")

NativeOutcomes ==
    { Success,
      Outcome("OCI_SUCCESS_WITH_INFO", "-"),
      Outcome("OCI_NO_DATA", "-"),
      Outcome("OCI_INVALID_HANDLE", "-"),
      Outcome("OCI_ERROR", "no_data"),
      Outcome("OCI_ERROR", "text"),
      Outcome("OCI_ERROR", "bad_utf8") }

\* a call that hands out a handle does so when it reports success
GivesHandle(o) == o.st \in {"OCI_SUCCESS", "OCI_SUCCESS_WITH_INFO"}

\* one native call: the function, the handle it acts on (0 is the null
\* pointer), a number and a tag among its arguments, the status it returned
Call(fn, h, n, tag, st) == [fn |-> fn, h |-> h, n |-> n, tag |-> tag, st |-> st]

\* OCIHandleAlloc / OCIStmtPrepare2 / OCIDefineByPos storing a fresh handle
\* behind the out pointer; a failing call leaves the pointer as it was
Alloc(hs, htype, fails, old) ==
    IF fails THEN [hs |-> hs, id |-> old]
    ELSE [hs |-> Append(hs, [htype |-> htype]), id |-> Len(hs) + 1]

(***************************************************************************)
(* Statement::check_error (stmt.rs)                                        *)
(***************************************************************************)

check_error(o) ==
    IF o.st = "OCI_ERROR"
    THEN IF o.diag = "no_data" THEN "Ok"
         ELSE IF o.diag = "bad_utf8" THEN "Panic"
         ELSE "Err"
    ELSE IF o.st = "OCI_INVALID_HANDLE" THEN "Err"
    ELSE "Ok"

\* the native call check_error itself makes
check_error_calls(error_handle, o) ==
    IF o.st = "OCI_ERROR"
    THEN <<Call("OCIErrorGet", error_handle, 1, "OCI_HTYPE_ERROR",
                IF o.diag = "no_data" THEN "OCI_NO_DATA" ELSE "OCI_SUCCESS")>>
    ELSE <<>>

(***************************************************************************)
(* ConnectionEnviroment and RawConnection (raw.rs)                         *)
(***************************************************************************)

NoConn ==
    [state |-> "None", err |-> "-", strong |-> 0, held |-> FALSE,
     env |-> 0, error_handle |-> 0,
     service_handle |-> 0, server_handle |-> 0,
     session_handle |-> 0, transaction_handle |-> 0]

\* impl Drop for ConnectionEnviroment
DropEnvironment(c) ==
    << Call("OCIHandleFree", c.error_handle, 0, "OCI_HTYPE_ERROR", "-"),
       Call("OCIHandleFree", c.env, 0, "OCI_HTYPE_ENV", "-") >>

\* impl Drop for RawConnection, and then the drop of its field env
DropRawConnection(c) ==
    << Call("OCISessionEnd", c.session_handle, 0, "-", "-"),
       Call("OCIServerDetach", c.server_handle, 0, "-", "-"),
       Call("OCIHandleFree", c.session_handle, 0, "OCI_HTYPE_SESSION", "-"),
       Call("OCIHandleFree", c.service_handle, 0, "OCI_HTYPE_SVCCTX", "-"),
       Call("OCIHandleFree", c.server_handle, 0, "OCI_HTYPE_ENV", "-"),
       Call("OCIHandleFree", c.transaction_handle, 0, "OCI_HTYPE_TRANS", "-") >>
    \o DropEnvironment(c)

\* which OCIHandleAlloc, if any, fails (alloc_handle ignores the status and
\* returns the null pointer it started with)
AllocFailures == {"none", "error", "server", "service", "session", "transaction"}

\* the result of an operation: what it returned, the native calls it made,
\* the handle table after it, the release calls among its native calls
Result(ret, calls, hs, rel) == [ret |-> ret, calls |-> calls, hs |-> hs, rel |-> rel]

\* RawConnection::establish after a successful parse_db_string and a
\* successful OCIEnvNlsCreate
establish_from_env(hs0, af, attach, begin) ==
    LET e  == Alloc(hs0, "OCI_HTYPE_ENV", FALSE, 0)
        er == Alloc(e.hs, "OCI_HTYPE_ERROR", af = "error", 0)
        sv == Alloc(er.hs, "OCI_HTYPE_SERVER", af = "server", 0)
        sc == Alloc(sv.hs, "OCI_HTYPE_SVCCTX", af = "service", 0)
        se == Alloc(sc.hs, "OCI_HTYPE_SESSION", af = "session", 0)
        tr == Alloc(se.hs, "OCI_HTYPE_TRANS", af = "transaction", 0)
        c  == [NoConn EXCEPT !.env = e.id, !.error_handle = er.id,
                             !.server_handle = sv.id, !.service_handle = sc.id,
                             !.session_handle = se.id, !.transaction_handle = tr.id]
        AllocSt(which) == IF af = which THEN "OCI_ERROR" ELSE "OCI_SUCCESS"
        upToAttach ==
            << Call("OCIEnvNlsCreate", e.id, 0, "-", "OCI_SUCCESS"),
               Call("OCIHandleAlloc", er.id, 0, "OCI_HTYPE_ERROR", AllocSt("error")),
               Call("OCINlsCharSetNameToId", e.id, 0, "UTF8", "-"),
               Call("OCIHandleAlloc", sv.id, 0, "OCI_HTYPE_SERVER", AllocSt("server")),
               Call("OCIHandleAlloc", sc.id, 0, "OCI_HTYPE_SVCCTX", AllocSt("service")),
               Call("OCIHandleAlloc", se.id, 0, "OCI_HTYPE_SESSION", AllocSt("session")),
               Call("OCIHandleAlloc", tr.id, 0, "OCI_HTYPE_TRANS", AllocSt("transaction")),
               Call("OCIServerAttach", sv.id, 0, "-", attach.st) >>
            \o check_error_calls(er.id, attach)
        upToBegin ==
            upToAttach \o
            << Call("OCIAttrSet", sc.id, 0, "OCI_ATTR_SERVER", "-"),
               Call("OCIAttrSet", se.id, 0, "OCI_ATTR_USERNAME", "-"),
               Call("OCIAttrSet", se.id, 0, "OCI_ATTR_PASSWORD", "-"),
               Call("OCISessionBegin", sc.id, 0, "OCI_CRED_RDBMS", begin.st) >>
            \o check_error_calls(er.id, begin)
        toEnd ==
            upToBegin \o
            << Call("OCIAttrSet", sc.id, 0, "OCI_ATTR_SESSION", "-"),
               Call("OCIAttrSet", sc.id, 0, "OCI_ATTR_TRANS", "-") >>
        \* an early return or a panic drops the local env, and nothing else
        Abort(ret, calls) ==
            Result(ret, calls \o DropEnvironment(c), tr.hs, DropEnvironment(c))
    IN  CASE check_error(attach) = "Err" ->
                Abort([NoConn EXCEPT !.state = "Failed", !.err = "BadConnection"],
                      upToAttach)
          [] check_error(attach) = "Panic" ->
                Abort([NoConn EXCEPT !.state = "Panicked"], upToAttach)
          [] check_error(attach) = "Ok" /\ check_error(begin) = "Err" ->
                Abort([NoConn EXCEPT !.state = "Failed", !.err = "BadConnection"],
                      upToBegin)
          [] check_error(attach) = "Ok" /\ check_error(begin) = "Panic" ->
                Abort([NoConn EXCEPT !.state = "Panicked"], upToBegin)
          [] OTHER ->
                Result([c EXCEPT !.state = "Established", !.strong = 1, !.held = TRUE],
                       toEnd, tr.hs, <<>>)

\* RawConnection::establish
establish(database_url, hs0, env_created, af, attach, begin) ==
    LET p == parse_db_string(database_url)
    IN  CASE p.tag = "Err" ->
                Result([NoConn EXCEPT !.state = "Failed", !.err = p.kind],
                       <<>>, hs0, <<>>)
          [] p.tag = "Panic" ->
                Result([NoConn EXCEPT !.state = "Panicked"], <<>>, hs0, <<>>)
          [] p.tag = "Ok" /\ ~env_created ->
                Result([NoConn EXCEPT !.state = "Failed", !.err = "BadConnection"],
                       <<Call("OCIEnvNlsCreate", 0, 0, "-", "OCI_ERROR")>>, hs0, <<>>)
          [] OTHER -> establish_from_env(hs0, af, attach, begin)

(***************************************************************************)
(* Rc<RawConnection>                                                       *)
(***************************************************************************)

\* the connection after one Rc<RawConnection> is dropped
rc_drop_conn(c) ==
    IF c.strong = 1
    THEN [c EXCEPT !.strong = 0, !.state = "Dropped"]
    ELSE [c EXCEPT !.strong = c.strong - 1]

\* a drop of the connection that does not look at the strong count
rc_drop_calls_uncounted(c) == DropRawConnection(c)

\* the drop of one Rc<RawConnection>: the last one drops the RawConnection
rc_drop_calls(c) ==
    IF c.strong = 1 THEN DropRawConnection(c) ELSE <<>>

(***************************************************************************)
(* Statement (stmt.rs)                                                     *)
(***************************************************************************)

MaxStmts == 2

StmtSlots == 1..MaxStmts

\* bound_at is not a field of the struct: it records, for each bind call, the
\* position it passed to OCIBindByPos and what it returned
NoStmt ==
    [state |-> "None", inner_statement |-> 0, bind_index |-> 0,
     is_select |-> FALSE, buffers |-> <<>>, sizes |-> <<>>, indicators |-> <<>>,
     borrowed |-> 0, bound_at |-> <<>>]

KwCreate == <<"C", "R", "E", "A", "T", "E">>
KwSelect == <<"S", "E", "L", "E", "C", "T">>
KwSelectLower == <<"s", "e", "l", "e", "c", "t">>

\* the byte offset below which a CREATE makes prepare prepare twice
CreateWindow == 10

\* the test for CREATE without the bound on where it is found
prepares_twice_anywhere(sql) == Find(sql, KwCreate) # 0

\* `if let Some(u) = mysql.find("CREATE") { if u < 10 {`
prepares_twice(sql) ==
    /\ Find(sql, KwCreate) # 0
    /\ Find(sql, KwCreate) - 1 < CreateWindow

\* Statement::prepare(raw_connection, sql): p1 and p2 are what the first and
\* the second OCIStmtPrepare2 report
prepare(c, hs0, sql, p1, p2) ==
    LET a1 == Alloc(hs0, "OCI_HTYPE_STMT", ~GivesHandle(p1), 0)
        a2 == Alloc(a1.hs, "OCI_HTYPE_STMT", ~GivesHandle(p2), a1.id)
        calls1 == <<Call("OCIStmtPrepare2", a1.id, 1, "OCI_NTV_SYNTAX", p1.st)>>
                  \o check_error_calls(c.error_handle, p1)
        calls2 == calls1
                  \o <<Call("OCIStmtPrepare2", a2.id, 2, "OCI_NTV_SYNTAX", p2.st)>>
                  \o check_error_calls(c.error_handle, p2)
        Made(h) == [NoStmt EXCEPT !.state = "Alive", !.inner_statement = h,
                       !.is_select = Contains(sql, KwSelect) \/ Contains(sql, KwSelectLower)]
    IN  CASE check_error(p1) # "Ok" ->
                Result([NoStmt EXCEPT !.state = check_error(p1)], calls1, a1.hs, <<>>)
          [] check_error(p1) = "Ok" /\ ~prepares_twice(sql) ->
                Result(Made(a1.id), calls1, a1.hs, <<>>)
          [] check_error(p1) = "Ok" /\ prepares_twice(sql) /\ check_error(p2) # "Ok" ->
                Result([NoStmt EXCEPT !.state = check_error(p2)], calls2, a2.hs, <<>>)
          [] OTHER ->
                Result(Made(a2.id), calls2, a2.hs, <<>>)

\* the OCIDataType values bind distinguishes, and any other one
BindTypes == {"Float", "Char", "Integer"}

\* the type code bind passes: SQLT_BFLOAT for a 4-byte Float, tpe.to_raw()
\* for everything else
bind_type_code(tpe, size) ==
    IF size = 4 /\ tpe = "Float" THEN "SQLT_BFLOAT"
    ELSE CASE tpe = "Float" -> "to_raw(Float)"
           [] tpe = "Char" -> "to_raw(Char)"
           [] OTHER -> "to_raw(Integer)"

NoValue == [some |-> FALSE, bytes |-> <<>>]
Some(bytes) == [some |-> TRUE, bytes |-> bytes]

\* bind with the index used before it is incremented
bind_use_then_increment(c, st, tpe, value, b) ==
    LET index == st.bind_index
        buf == IF value.some THEN value.bytes ELSE <<>>
        size == IF value.some THEN Len(value.bytes) ELSE 0
        nullind == IF value.some THEN 0 ELSE -1
        pushed == [st EXCEPT !.bind_index = index + 1,
                             !.buffers = Append(@, buf),
                             !.sizes = Append(@, size),
                             !.indicators = Append(@, nullind),
                             !.bound_at = Append(@, [pos |-> index, ret |-> check_error(b)])]
        calls == <<Call("OCIBindByPos", st.inner_statement, index,
                        bind_type_code(tpe, size), b.st)>>
                 \o check_error_calls(c.error_handle, b)
    IN  IF check_error(b) = "Ok" /\ tpe = "Char"
        THEN [ret |-> "Ok", st |-> pushed,
              calls |-> calls \o <<Call("OCIAttrSet", 0, 0, "OCI_ATTR_CHARSET_ID", "-")>>]
        ELSE [ret |-> check_error(b), st |-> pushed, calls |-> calls]

\* bind with the indicator of a present value for every value
bind_never_null(c, st, tpe, value, b) ==
    LET index == st.bind_index + 1
        buf == IF value.some THEN value.bytes ELSE <<>>
        size == IF value.some THEN Len(value.bytes) ELSE 0
        nullind == 0
        pushed == [st EXCEPT !.bind_index = index,
                             !.buffers = Append(@, buf),
                             !.sizes = Append(@, size),
                             !.indicators = Append(@, nullind),
                             !.bound_at = Append(@, [pos |-> index, ret |-> check_error(b)])]
        calls == <<Call("OCIBindByPos", st.inner_statement, index,
                        bind_type_code(tpe, size), b.st)>>
                 \o check_error_calls(c.error_handle, b)
    IN  IF check_error(b) = "Ok" /\ tpe = "Char"
        THEN [ret |-> "Ok", st |-> pushed,
              calls |-> calls \o <<Call("OCIAttrSet", 0, 0, "OCI_ATTR_CHARSET_ID", "-")>>]
        ELSE [ret |-> check_error(b), st |-> pushed, calls |-> calls]

\* bind that records the buffer, size and indicator only when the native
\* bind passed check_error
bind_pushes_after_check(c, st, tpe, value, b) ==
    LET index == st.bind_index + 1
        buf == IF value.some THEN value.bytes ELSE <<>>
        size == IF value.some THEN Len(value.bytes) ELSE 0
        nullind == IF value.some THEN 0 ELSE -1
        counted == [st EXCEPT !.bind_index = index,
                              !.bound_at = Append(@, [pos |-> index, ret |-> check_error(b)])]
        pushed == [counted EXCEPT !.buffers = Append(@, buf),
                                  !.sizes = Append(@, size),
                                  !.indicators = Append(@, nullind)]
        calls == <<Call("OCIBindByPos", st.inner_statement, index,
                        bind_type_code(tpe, size), b.st)>>
                 \o check_error_calls(c.error_handle, b)
    IN  IF check_error(b) = "Ok" /\ tpe = "Char"
        THEN [ret |-> "Ok", st |-> pushed,
              calls |-> calls \o <<Call("OCIAttrSet", 0, 0, "OCI_ATTR_CHARSET_ID", "-")>>]
        ELSE IF check_error(b) = "Ok"
        THEN [ret |-> "Ok", st |-> pushed, calls |-> calls]
        ELSE [ret |-> check_error(b), st |-> counted, calls |-> calls]

\* Statement::bind(tpe, value): b is what OCIBindByPos reports.  The function
\* returns before the charset attribute is set when check_error fails.
bind(c, st, tpe, value, b) ==
    LET index == st.bind_index + 1
        buf == IF value.some THEN value.bytes ELSE <<>>
        size == IF value.some THEN Len(value.bytes) ELSE 0
        nullind == IF value.some THEN 0 ELSE -1
        pushed == [st EXCEPT !.bind_index = index,
                             !.buffers = Append(@, buf),
                             !.sizes = Append(@, size),
                             !.indicators = Append(@, nullind),
                             !.bound_at = Append(@, [pos |-> index, ret |-> check_error(b)])]
        calls == <<Call("OCIBindByPos", st.inner_statement, index,
                        bind_type_code(tpe, size), b.st)>>
                 \o check_error_calls(c.error_handle, b)
    IN  IF check_error(b) = "Ok" /\ tpe = "Char"
        THEN [ret |-> "Ok", st |-> pushed,
              calls |-> calls \o <<Call("OCIAttrSet", 0, 0, "OCI_ATTR_CHARSET_ID", "-")>>]
        ELSE [ret |-> check_error(b), st |-> pushed, calls |-> calls]

\* a run that asks for one iteration whatever the statement is
run_iterates_once(c, st, e) ==
    [ret |-> check_error(e),
     calls |-> <<Call("OCIStmtExecute", st.inner_statement, 1, "-", e.st)>>
               \o check_error_calls(c.error_handle, e)]

\* Statement::run(): e is what OCIStmtExecute reports
run(c, st, e) ==
    LET iters == IF st.is_select THEN 0 ELSE 1
    IN  [ret |-> check_error(e),
         calls |-> <<Call("OCIStmtExecute", st.inner_statement, iters, "-", e.st)>>
                   \o check_error_calls(c.error_handle, e)]

\* impl Drop for Statement: the release, and then the drop of the field
\* connection (an Rc)
drop_statement_calls(c, st, r) ==
    <<Call("OCIStmtRelease", st.inner_statement, 0, "-", r.st)>>
    \o check_error_calls(c.error_handle, r)
    \o rc_drop_calls(c)

\* the release calls among native calls
ReleaseCalls(calls) ==
    SelectSeq(calls, LAMBDA k : k.fn \in {"OCISessionEnd", "OCIServerDetach",
                                          "OCIHandleFree", "OCIStmtRelease"})

(***************************************************************************)
(* Result columns: get_attr_type_and_size, define, define_all_columns      *)
(***************************************************************************)

IntegerCodes == {"SQLT_INT", "SQLT_UIN"}
DoubleCodes == {"SQLT_BDOUBLE", "SQLT_LNG", "SQLT_IBDOUBLE"}
FloatCodes == {"SQLT_FLT", "SQLT_BFLOAT", "SQLT_IBFLOAT"}
StringCodes ==
    {"SQLT_CHR", "SQLT_VCS", "SQLT_LVC", "SQLT_AFC", "SQLT_VST", "SQLT_ODT",
     "SQLT_DATE", "SQLT_TIMESTAMP", "SQLT_TIMESTAMP_TZ", "SQLT_TIMESTAMP_LTZ"}

\* a column as the native library describes it: the data type code, the
\* precision, scale and character size attributes, and what each native call
\* made for the column reports
Column(code, precision, scale, char_size) ==
    [code |-> code, precision |-> precision, scale |-> scale, char_size |-> char_size,
     param |-> Success, dtype |-> Success, prec_o |-> Success, scale_o |-> Success,
     size_o |-> Success, def |-> Success]

\* an OCIAttrGet that does not write its output leaves the initial value
Written(o, value, initial) == IF GivesHandle(o) THEN value ELSE initial

\* the width of a NUMBER column of scale 0
number_width(precision) ==
    CASE precision = 5 -> 2
      [] precision = 10 -> 4
      [] precision = 19 -> 8
      [] OTHER -> 21

\* Statement::get_attr_type_and_size(col_handle)
get_attr_type_and_size(c, col) ==
    LET tpe == Written(col.dtype, col.code, "0")
        precision == Written(col.prec_o, col.precision, 0)
        scale == Written(col.scale_o, col.scale, 0)
        Get(attr, o) == <<Call("OCIAttrGet", 0, 0, attr, o.st)>>
                        \o check_error_calls(c.error_handle, o)
        c1 == Get("OCI_ATTR_DATA_TYPE", col.dtype)
        c2 == c1 \o Get("OCI_ATTR_PRECISION", col.prec_o)
        c3 == c2 \o Get("OCI_ATTR_SCALE", col.scale_o)
        c4 == c1 \o Get("OCI_ATTR_CHAR_SIZE", col.size_o)
        R(ret, t, size, calls) == [ret |-> ret, tpe |-> t, size |-> size, calls |-> calls]
    IN  CASE check_error(col.dtype) # "Ok" -> R(check_error(col.dtype), tpe, 0, c1)
          [] check_error(col.dtype) = "Ok" /\ tpe \in IntegerCodes -> R("Ok", tpe, 8, c1)
          [] check_error(col.dtype) = "Ok" /\ tpe = "SQLT_NUM" ->
                IF check_error(col.prec_o) # "Ok"
                THEN R(check_error(col.prec_o), tpe, 0, c2)
                ELSE IF check_error(col.scale_o) # "Ok"
                THEN R(check_error(col.scale_o), tpe, 0, c3)
                ELSE IF scale = 0
                THEN R("Ok", "SQLT_INT", number_width(precision), c3)
                ELSE R("Ok", "SQLT_FLT", 8, c3)
          [] check_error(col.dtype) = "Ok" /\ tpe \in DoubleCodes ->
                R("Ok", "SQLT_BDOUBLE", 8, c1)
          [] check_error(col.dtype) = "Ok" /\ tpe \in FloatCodes ->
                R("Ok", "SQLT_BFLOAT", 4, c1)
          [] check_error(col.dtype) = "Ok" /\ tpe \in StringCodes ->
                IF check_error(col.size_o) # "Ok"
                THEN R(check_error(col.size_o), tpe, 0, c4)
                ELSE R("Ok", "SQLT_STR", Written(col.size_o, col.char_size, 0), c4)
          [] OTHER -> R("Unsupported", tpe, 0, c1)

\* OCIDataType::from_raw(tpe) is Some for the type codes of the table
from_raw_is_some(tpe) ==
    tpe \in IntegerCodes \cup DoubleCodes \cup FloatCodes \cup StringCodes
            \cup {"SQLT_NUM", "SQLT_STR"}

Zeros(n) == [k \in 1..n |-> 0]

\* Field::new(raw, buffer, indicator, typ)
Field(raw, buffer, indicator, typ) ==
    [inner |-> raw, buffer |-> buffer, null_indicator |-> indicator, typ |-> typ]

\* Statement::define(fields, tpe, tpe_size, col_number): d is what
\* OCIDefineByPos reports
define(c, hs0, st, fields, tpe, tpe_size, col_number, d) ==
    LET v == Zeros(tpe_size)
        a == Alloc(hs0, "OCI_HTYPE_DEFINE", ~GivesHandle(d), 0)
        calls == <<Call("OCIDefineByPos", st.inner_statement, col_number, tpe, d.st)>>
                 \o check_error_calls(c.error_handle, d)
        R(ret, fs) == [ret |-> ret, fields |-> fs, hs |-> a.hs, calls |-> calls]
    IN  IF check_error(d) # "Ok" THEN R(check_error(d), fields)
        ELSE IF from_raw_is_some(tpe)
        THEN R("Ok", Append(fields, Field(a.id, v, -1, tpe)))
        ELSE R("Unsupported", fields)

\* the rest of define_column once get_attr_type_and_size has returned ts
define_column_typed(c, hs0, st, fields, col_number, col, pcalls, ts) ==
    LET df == define(c, hs0, st, fields, ts.tpe, ts.size, col_number, col.def)
    IN  IF ts.ret # "Ok"
        THEN [ret |-> ts.ret, fields |-> fields, hs |-> hs0, calls |-> pcalls \o ts.calls]
        ELSE [df EXCEPT !.calls = pcalls \o ts.calls \o @]

\* Statement::define_column(fields, col_number)
define_column(c, hs0, st, fields, col_number, col) ==
    LET pcalls == <<Call("OCIParamGet", st.inner_statement, col_number, "-", col.param.st)>>
                  \o check_error_calls(c.error_handle, col.param)
    IN  IF check_error(col.param) # "Ok"
        THEN [ret |-> check_error(col.param), fields |-> fields, hs |-> hs0,
              calls |-> pcalls]
        ELSE define_column_typed(c, hs0, st, fields, col_number, col, pcalls,
                                 get_attr_type_and_size(c, col))

\* impl Drop for Field, for each Field of a Vec<Field> in order
drop_fields_calls(fields) ==
    [k \in 1..Len(fields) |->
        Call("OCIHandleFree", fields[k].inner, 0, "OCI_HTYPE_DEFINE", "-")]

\* one iteration of the loop of define_all_columns: before is the loop so
\* far, one what define_column returned; an error return drops the local
\* Vec<Field>
define_columns_step(before, one) ==
    IF one.ret # "Ok"
    THEN [ret |-> one.ret, fields |-> <<>>, hs |-> one.hs,
          calls |-> before.calls \o one.calls \o drop_fields_calls(one.fields)]
    ELSE [one EXCEPT !.calls = before.calls \o @]

\* the loop after column n, given the loop before it
define_columns_next(c, st, before, n, col) ==
    IF before.ret # "Ok" THEN before
    ELSE define_columns_step(before,
             define_column(c, before.hs, st, before.fields, n, col))

\* the loop of define_all_columns over the columns 1..Len(cols)
define_columns(c, hs0, st, cols) ==
    LET after[n \in 0..Len(cols)] ==
            IF n = 0
            THEN [ret |-> "Ok", fields |-> <<>>, hs |-> hs0, calls |-> <<>>]
            ELSE define_columns_next(c, st, after[n - 1], n, cols[n])
    IN  after[Len(cols)]

\* r with calls made before its own
After(calls, r) == [r EXCEPT !.calls = calls \o @]

\* define_all_columns with a loop that stops one column early
define_all_columns_but_last(c, hs0, st, cc, cols) ==
    LET ccalls == <<Call("OCIAttrGet", st.inner_statement, 0, "OCI_ATTR_PARAM_COUNT", cc.st)>>
                  \o check_error_calls(c.error_handle, cc)
        col_count == Written(cc, Len(cols), 0)
        last == IF col_count = 0 THEN 0 ELSE col_count - 1
    IN  IF check_error(cc) # "Ok"
        THEN [ret |-> check_error(cc), fields |-> <<>>, hs |-> hs0, calls |-> ccalls]
        ELSE After(ccalls, define_columns(c, hs0, st, SubSeq(cols, 1, last)))

\* Statement::define_all_columns(): cc is what the OCIAttrGet of
\* get_column_count reports, cols the columns of the result set
define_all_columns(c, hs0, st, cc, cols) ==
    LET ccalls == <<Call("OCIAttrGet", st.inner_statement, 0, "OCI_ATTR_PARAM_COUNT", cc.st)>>
                  \o check_error_calls(c.error_handle, cc)
        col_count == Written(cc, Len(cols), 0)
    IN  IF check_error(cc) # "Ok"
        THEN [ret |-> check_error(cc), fields |-> <<>>, hs |-> hs0, calls |-> ccalls]
        ELSE After(ccalls, define_columns(c, hs0, st, SubSeq(cols, 1, col_count)))

(***************************************************************************)
(* Cursor (cursor.rs)                                                      *)
(***************************************************************************)

MaxCursors == 1

CursorSlots == 1..MaxCursors

\* log is not a field of the struct: it records, for each call of next, what
\* the fetch reported and what next returned
NoCursor ==
    [state |-> "None", stmt |-> 0, results |-> <<>>, current_row |-> 0, log |-> <<>>]

\* Cursor::new(stmt, binds)
NewCursor(i, fields) ==
    [NoCursor EXCEPT !.state = "Alive", !.stmt = i, !.results = fields]

\* Statement::run_with_cursor()
run_with_cursor(c, hs0, st, e, cc, cols) ==
    IF check_error(e) # "Ok"
    THEN [ret |-> check_error(e), fields |-> <<>>, hs |-> hs0,
          calls |-> run(c, st, e).calls]
    ELSE After(run(c, st, e).calls, define_all_columns(c, hs0, st, cc, cols))

\* a null test that takes every indicator other than 0 as NULL
is_null_nonzero(field) == field.null_indicator # 0

\* Field::is_null
is_null(field) == field.null_indicator = -1

\* what a fetch that delivers a row writes through the define registrations:
\* a null indicator for each Field
fetched(fields, inds) ==
    [k \in 1..Len(fields) |-> [fields[k] EXCEPT !.null_indicator = inds[k]]]

\* the row view handed to the decoder: the buffers and the null flags
OciRow(fields) ==
    [binds |-> [k \in 1..Len(fields) |-> fields[k].buffer],
     is_null |-> [k \in 1..Len(fields) |-> is_null(fields[k])]]

\* an advance that counts a row only when it decodes
cursor_next_counts_decoded(c, st, cur, f, inds, decoded) ==
    LET calls == <<Call("OCIStmtFetch2", st.inner_statement, 1, "OCI_FETCH_NEXT", f.st)>>
                 \o check_error_calls(c.error_handle, f)
        results == IF GivesHandle(f) THEN fetched(cur.results, inds) ELSE cur.results
        Logged(cu, item) == [cu EXCEPT !.log = Append(@, [fetch |-> f, item |-> item])]
    IN  CASE check_error(f) = "Err" ->
                [item |-> "DatabaseError", cur |-> Logged(cur, "DatabaseError"),
                 calls |-> calls, row |-> OciRow(<<>>)]
          [] check_error(f) = "Panic" ->
                [item |-> "Panic", cur |-> Logged(cur, "Panic"),
                 calls |-> calls, row |-> OciRow(<<>>)]
          [] check_error(f) = "Ok" /\ f.st = "OCI_NO_DATA" ->
                [item |-> "None", cur |-> Logged(cur, "None"),
                 calls |-> calls, row |-> OciRow(<<>>)]
          [] OTHER ->
                LET item == IF decoded THEN "Row" ELSE "DeserializationError"
                IN  [item |-> item,
                     cur |-> Logged([cur EXCEPT !.current_row = IF decoded THEN @ + 1 ELSE @,
                                                !.results = results], item),
                     calls |-> calls, row |-> OciRow(results)]

\* Cursor::next(): f is what OCIStmtFetch2 reports, inds what it writes to
\* the indicators when it delivers a row, decoded whether build_from_row
\* succeeds
cursor_next(c, st, cur, f, inds, decoded) ==
    LET calls == <<Call("OCIStmtFetch2", st.inner_statement, 1, "OCI_FETCH_NEXT", f.st)>>
                 \o check_error_calls(c.error_handle, f)
        results == IF GivesHandle(f) THEN fetched(cur.results, inds) ELSE cur.results
        Logged(cu, item) == [cu EXCEPT !.log = Append(@, [fetch |-> f, item |-> item])]
    IN  CASE check_error(f) = "Err" ->
                [item |-> "DatabaseError", cur |-> Logged(cur, "DatabaseError"),
                 calls |-> calls, row |-> OciRow(<<>>)]
          [] check_error(f) = "Panic" ->
                [item |-> "Panic", cur |-> Logged(cur, "Panic"),
                 calls |-> calls, row |-> OciRow(<<>>)]
          [] check_error(f) = "Ok" /\ f.st = "OCI_NO_DATA" ->
                [item |-> "None", cur |-> Logged(cur, "None"),
                 calls |-> calls, row |-> OciRow(<<>>)]
          [] OTHER ->
                LET item == IF decoded THEN "Row" ELSE "DeserializationError"
                IN  [item |-> item,
                     cur |-> Logged([cur EXCEPT !.current_row = @ + 1,
                                                !.results = results], item),
                     calls |-> calls, row |-> OciRow(results)]

(***************************************************************************)
(* Actions                                                                 *)
(***************************************************************************)

NoOp == [name |-> "-"]

Init0(urls) ==
    /\ url \in urls
    /\ parsed = NotCalled
    /\ handles = <<>>
    /\ released = <<>>
    /\ conn = NoConn
    /\ stmts = [i \in StmtSlots |-> NoStmt]
    /\ cursors = [k \in CursorSlots |-> NoCursor]
    /\ op = NoOp
    /\ trace = <<>>
    /\ panicked = FALSE

\* a direct call of parse_db_string(url)
ParseDbString ==
    /\ ~panicked
    /\ parsed = NotCalled
    /\ conn.state = "None"
    /\ parsed' = parse_db_string(url)
    /\ op' = [name |-> "parse_db_string"]
    /\ panicked' = (parsed'.tag = "Panic")
    /\ UNCHANGED <<url, handles, released, conn, stmts, cursors, trace>>

\* the native behaviours establish(database_url) can meet: whether
\* OCIEnvNlsCreate succeeds, which OCIHandleAlloc fails, what OCIServerAttach
\* and OCISessionBegin report.  A call that is never reached has no outcome
\* to choose (it is listed as Success).
EstablishChoices(database_url, outcomes, allocs) ==
    IF parse_db_string(database_url).tag # "Ok"
    THEN {<<TRUE, "none", Success, Success>>}
    ELSE {<<FALSE, "none", Success, Success>>}
         \cup {<<TRUE, af, attach, Success>> :
                  af \in allocs, attach \in {o \in outcomes : check_error(o) # "Ok"}}
         \cup {<<TRUE, af, attach, begin>> :
                  af \in allocs, attach \in {o \in outcomes : check_error(o) = "Ok"},
                  begin \in outcomes}

\* RawConnection::establish(url); the caller wraps the connection in an Rc
Establish(outcomes, allocs) ==
    /\ ~panicked
    /\ conn.state = "None"
    /\ \E ch \in EstablishChoices(url, outcomes, allocs) :
          \E r \in {establish(url, handles, ch[1], ch[2], ch[3], ch[4])} :
              /\ conn' = r.ret
              /\ handles' = r.hs
              /\ trace' = r.calls
              /\ released' = released \o r.rel
              /\ panicked' = (r.ret.state = "Panicked")
              /\ op' = [name |-> "establish"]
    /\ UNCHANGED <<url, parsed, stmts, cursors>>

\* the caller drops its Rc<RawConnection>
DropConnection ==
    /\ ~panicked
    /\ conn.state = "Established"
    /\ conn.held
    /\ conn' = [rc_drop_conn(conn) EXCEPT !.held = FALSE]
    /\ trace' = rc_drop_calls(conn)
    /\ released' = released \o ReleaseCalls(rc_drop_calls(conn))
    /\ op' = [name |-> "drop_connection"]
    /\ UNCHANGED <<url, parsed, handles, stmts, cursors, panicked>>

\* the outcomes the second OCIStmtPrepare2 can have: it is only made when
\* the first passed check_error and the text asks for it
SecondPrepare(sql, p1, outcomes) ==
    IF check_error(p1) = "Ok" /\ prepares_twice(sql) THEN outcomes ELSE {Success}

\* Statement::prepare(&connection, sql): slot i holds what the i-th call of
\* prepare returned, a Statement or an error
Prepare(slots, sqls, outcomes) ==
    /\ ~panicked
    /\ conn.state = "Established"
    /\ \E i \in slots, sql \in sqls, p1 \in outcomes :
          \E p2 \in SecondPrepare(sql, p1, outcomes) :
          /\ stmts[i].state = "None"
          /\ \A j \in slots : j < i => stmts[j].state # "None"
          /\ \E r \in {prepare(conn, handles, sql, p1, p2)} :
              /\ handles' = r.hs
              /\ trace' = r.calls
              /\ op' = [name |-> "prepare", sql |-> sql, ret |-> r.ret.state]
              /\ panicked' = (r.ret.state = "Panic")
              /\ stmts' = [stmts EXCEPT ![i] = r.ret]
              /\ conn' = IF r.ret.state = "Alive"
                         THEN [conn EXCEPT !.strong = @ + 1]
                         ELSE conn
    /\ UNCHANGED <<url, parsed, released, cursors>>

MaxBinds == 2

\* stmts[i].bind(tpe, value)
Bind(slots, types, values, outcomes) ==
    /\ ~panicked
    /\ \E i \in slots, tpe \in types, value \in values, b \in outcomes :
          /\ stmts[i].state = "Alive"
          /\ stmts[i].borrowed = 0
          /\ stmts[i].bind_index < MaxBinds
          /\ \E r \in {bind(conn, stmts[i], tpe, value, b)} :
              /\ stmts' = [stmts EXCEPT ![i] = r.st]
              /\ trace' = r.calls
              /\ op' = [name |-> "bind", slot |-> i, value |-> value, ret |-> r.ret]
              /\ panicked' = (r.ret = "Panic")
    /\ UNCHANGED <<url, parsed, handles, released, conn, cursors>>

\* a run that forgets the binds of the statement when it fails
RunClearingBinds(slots, outcomes) ==
    /\ ~panicked
    /\ \E i \in slots, e \in outcomes :
          /\ stmts[i].state = "Alive"
          /\ \E r \in {run(conn, stmts[i], e)} :
              /\ trace' = r.calls
              /\ op' = [name |-> "run", slot |-> i, ret |-> r.ret]
              /\ panicked' = (r.ret = "Panic")
              /\ stmts' = IF r.ret = "Err"
                          THEN [stmts EXCEPT ![i].bind_index = 0, ![i].buffers = <<>>,
                                             ![i].sizes = <<>>, ![i].indicators = <<>>]
                          ELSE stmts
    /\ UNCHANGED <<url, parsed, handles, released, conn, cursors>>

\* stmts[i].run()
Run(slots, outcomes) ==
    /\ ~panicked
    /\ \E i \in slots, e \in outcomes :
          /\ stmts[i].state = "Alive"
          /\ \E r \in {run(conn, stmts[i], e)} :
              /\ trace' = r.calls
              /\ op' = [name |-> "run", slot |-> i, ret |-> r.ret]
              /\ panicked' = (r.ret = "Panic")
    /\ UNCHANGED <<url, parsed, handles, released, conn, stmts, cursors>>

\* stmts[i] goes out of scope; a panic of check_error in drop still drops
\* the fields
DropStatement(slots, outcomes) ==
    /\ ~panicked
    /\ \E i \in slots, r \in outcomes :
          /\ stmts[i].state = "Alive"
          /\ stmts[i].borrowed = 0
          /\ stmts' = [stmts EXCEPT ![i].state = "Dropped"]
          /\ conn' = rc_drop_conn(conn)
          /\ trace' = drop_statement_calls(conn, stmts[i], r)
          /\ released' = released \o ReleaseCalls(drop_statement_calls(conn, stmts[i], r))
          /\ op' = [name |-> "drop_statement", slot |-> i, ret |-> check_error(r)]
          /\ panicked' = (check_error(r) = "Panic")
    /\ UNCHANGED <<url, parsed, handles, cursors>>

MaxCols == 2

\* the result sets of at most MaxCols columns drawn from columns
RECURSIVE ColumnSeqs(_, _)
ColumnSeqs(columns, n) ==
    IF n = 0 THEN {<<>>}
    ELSE LET shorter == ColumnSeqs(columns, n - 1)
         IN  shorter \cup {Append(cs, col) : cs \in shorter, col \in columns}

\* the native behaviours run_with_cursor can meet after a run that reported e
CursorChoices(e, outcomes, columns) ==
    IF check_error(e) # "Ok" THEN {<<Success, <<>> >>}
    ELSE {<<cc, <<>> >> : cc \in {o \in outcomes : check_error(o) # "Ok"}}
         \cup {<<cc, cols>> : cc \in {o \in outcomes : check_error(o) = "Ok"},
                              cols \in ColumnSeqs(columns, MaxCols)}

\* stmts[i].run_with_cursor(): slot k holds what the k-th call of
\* run_with_cursor returned, a Cursor or an error
RunWithCursor(slots, outcomes, columns) ==
    /\ ~panicked
    /\ \E i \in slots, k \in CursorSlots, e \in outcomes :
          /\ stmts[i].state = "Alive"
          /\ cursors[k].state = "None"
          /\ \A j \in CursorSlots : j < k => cursors[j].state # "None"
          /\ \E ch \in CursorChoices(e, outcomes, columns) :
             \E r \in {run_with_cursor(conn, handles, stmts[i], e, ch[1], ch[2])} :
              /\ handles' = r.hs
              /\ trace' = r.calls
              /\ released' = released \o ReleaseCalls(r.calls)
              /\ op' = [name |-> "run_with_cursor", slot |-> i, cursor |-> k,
                        columns |-> Len(ch[2]), ret |-> r.ret]
              /\ panicked' = (r.ret = "Panic")
              /\ IF r.ret = "Ok"
                 THEN /\ cursors' = [cursors EXCEPT ![k] = NewCursor(i, r.fields)]
                      /\ stmts' = [stmts EXCEPT ![i].borrowed = @ + 1]
                 ELSE /\ cursors' = [cursors EXCEPT ![k].state = r.ret, ![k].stmt = i]
                      /\ UNCHANGED stmts
    /\ UNCHANGED <<url, parsed, conn>>

\* a call of get_attr_type_and_size on the descriptor of one column of
\* stmts[i]
GetAttrTypeAndSize(slots, columns) ==
    /\ ~panicked
    /\ \E i \in slots, col \in columns :
          /\ stmts[i].state = "Alive"
          /\ \E r \in {get_attr_type_and_size(conn, col)} :
              /\ trace' = r.calls
              /\ op' = [name |-> "get_attr_type_and_size", slot |-> i, col |-> col,
                        ret |-> r.ret, tpe |-> r.tpe, size |-> r.size]
              /\ panicked' = (r.ret = "Panic")
    /\ UNCHANGED <<url, parsed, handles, released, conn, stmts, cursors>>

\* the handles allocated and release calls made after which direct calls of
\* define stop
MaxHandles == 10

\* a direct call stmts[i].define(&mut fields, tpe, tpe_size, 1) with an empty
\* vector, which the caller then drops
Define(slots, tpes, sizes, outcomes) ==
    /\ ~panicked
    /\ \E i \in slots, tpe \in tpes, tpe_size \in sizes, d \in outcomes :
          /\ stmts[i].state = "Alive"
          /\ Len(handles) + Len(released) < MaxHandles
          /\ \E r \in {define(conn, handles, stmts[i], <<>>, tpe, tpe_size, 1, d)} :
              /\ handles' = r.hs
              /\ trace' = r.calls \o drop_fields_calls(r.fields)
              /\ released' = released \o drop_fields_calls(r.fields)
              /\ op' = [name |-> "define", slot |-> i, tpe |-> tpe, ret |-> r.ret,
                        fields |-> r.fields]
              /\ panicked' = (r.ret = "Panic")
    /\ UNCHANGED <<url, parsed, conn, stmts, cursors>>

MaxAdvances == 3

\* what a fetch can write to the indicators of n Fields
IndicatorRows(f, n, values) ==
    IF GivesHandle(f) THEN [1..n -> values] ELSE {[k \in 1..n |-> -1]}

\* whether the decoder is run, and what it can answer
Decodings(f) ==
    IF check_error(f) = "Ok" /\ f.st # "OCI_NO_DATA" THEN BOOLEAN ELSE {TRUE}

\* cursors[k].next()
CursorNext(outcomes, values) ==
    /\ ~panicked
    /\ \E k \in CursorSlots, f \in outcomes :
          \E inds \in IndicatorRows(f, Len(cursors[k].results), values),
             decoded \in Decodings(f) :
          /\ cursors[k].state = "Alive"
          /\ Len(cursors[k].log) < MaxAdvances
          /\ \E r \in {cursor_next(conn, stmts[cursors[k].stmt], cursors[k], f, inds, decoded)} :
              /\ cursors' = [cursors EXCEPT ![k] = r.cur]
              /\ trace' = r.calls
              /\ op' = [name |-> "next", slot |-> k, ret |-> r.item, row |-> r.row]
              /\ panicked' = (r.item = "Panic")
    /\ UNCHANGED <<url, parsed, handles, released, conn, stmts>>

\* cursors[k] goes out of scope: its Vec<Field> is dropped
DropCursor ==
    /\ ~panicked
    /\ \E k \in CursorSlots :
          /\ cursors[k].state = "Alive"
          /\ cursors' = [cursors EXCEPT ![k].state = "Dropped"]
          /\ stmts' = [stmts EXCEPT ![cursors[k].stmt].borrowed = @ - 1]
          /\ trace' = drop_fields_calls(cursors[k].results)
          /\ released' = released \o drop_fields_calls(cursors[k].results)
          /\ op' = [name |-> "drop_cursor", slot |-> k]
    /\ UNCHANGED <<url, parsed, handles, conn, panicked>>

(***************************************************************************)
(* Inputs of the statement operations                                      *)
(***************************************************************************)

MaxPad == 10

Pad(n) == [k \in 1..n |-> " "]

KwCreateLower == <<"c", "r", "e", "a", "t", "e">>
KwInsert == <<"I", "N", "S", "E", "R", "T">>

\* SQL texts: a keyword after 0..MaxPad blanks, and texts with two keywords
SqlTexts ==
    {Pad(n) \o kw : n \in 0..MaxPad,
                    kw \in {KwCreate, KwCreateLower, KwSelect, KwSelectLower, KwInsert}}
    \cup {KwInsert \o Pad(n) \o KwCreate : n \in 0..MaxPad}
    \cup {KwCreate \o Pad(1) \o KwSelect, KwSelect \o Pad(1) \o KwCreate, <<>>}

ValidUrl == SchemePrefix \o <<"u", "/", "u", "@", "/", "/", "u">>

\* a few connection strings: a well-formed one, one without the scheme, one
\* with a segment missing
LifeUrls == {ValidUrl, <<"u">>, SchemePrefix \o <<"u">>}

LifeSqls == {KwSelect, KwCreate, KwInsert}

\* a successful call and a failing one
LifeOutcomes == {Success, Outcome("OCI_ERROR", "text")}

LifeColumns == {Column("SQLT_INT", 0, 0, 0), Column("SQLT_BLOB", 0, 0, 0)}

BindValues == {NoValue, Some(<<>>), Some(<<1, 2, 3, 4>>)}

(***************************************************************************)
(* Specification of the whole life cycle: connection, statements, cursor   *)
(***************************************************************************)

Init == Init0(LifeUrls)

\* the operations that allocate or release a native handle or an Rc
Next ==
    \/ Establish(LifeOutcomes, {"none"})
    \/ DropConnection
    \/ Prepare(StmtSlots, LifeSqls, LifeOutcomes)
    \/ RunWithCursor(StmtSlots, LifeOutcomes, LifeColumns)
    \/ DropCursor
    \/ DropStatement(StmtSlots, LifeOutcomes \cup {Outcome("OCI_ERROR", "bad_utf8")})

Spec == Init /\ [][Next]_vars

(***************************************************************************)
(* Specification of one Statement on every SQL text, bind and outcome      *)
(***************************************************************************)

InitStmt == Init0({ValidUrl})

NextStmt ==
    \/ Establish({Success}, {"none"})
    \/ Prepare({1}, SqlTexts, NativeOutcomes)
    \/ Bind({1}, BindTypes, BindValues, NativeOutcomes)
    \/ Run({1}, NativeOutcomes)
    \/ DropStatement({1}, {Success})

SpecStmt == InitStmt /\ [][NextStmt]_vars

(***************************************************************************)
(* Specification of one Cursor on every fetch outcome                      *)
(***************************************************************************)

CursorColumns ==
    {Column("SQLT_INT", 0, 0, 0), Column("SQLT_CHR", 0, 0, 2)}

\* those, a column of an unsupported type, and columns with one native call
\* that is reported as an error
DefineColumns ==
    CursorColumns
    \cup {Column("SQLT_BLOB", 0, 0, 0),
          [Column("SQLT_INT", 0, 0, 0) EXCEPT !.def = Outcome("OCI_ERROR", "text")],
          [Column("SQLT_CHR", 0, 0, 2) EXCEPT !.param = Outcome("OCI_INVALID_HANDLE", "-")]}

\* the null indicators a fetch can write: NULL, not null, truncated
IndicatorValues == {-1, 0, 1}

InitCursor == Init0({ValidUrl})

NextCursor ==
    \/ Establish({Success}, {"none"})
    \/ Prepare({1}, {KwSelect}, {Success})
    \/ RunWithCursor({1}, NativeOutcomes, DefineColumns)
    \/ CursorNext(NativeOutcomes, IndicatorValues)
    \/ DropCursor

SpecCursor == InitCursor /\ [][NextCursor]_vars

(***************************************************************************)
(* Specification of the columns of a result set                            *)
(***************************************************************************)

\* the data type codes of the table of get_attr_type_and_size, and codes
\* outside it
ColumnCodes ==
    IntegerCodes \cup DoubleCodes \cup FloatCodes \cup StringCodes
    \cup {"SQLT_NUM", "SQLT_STR", "SQLT_BLOB", "SQLT_RDD"}

\* column descriptors whose attribute reads all succeed
DescribedColumns ==
    {Column(code, precision, scale, char_size) :
        code \in ColumnCodes, precision \in {0, 5, 10, 19, 38},
        scale \in {-2, 0, 2}, char_size \in {0, 30, 4000}}

\* those, and for each code a descriptor with one attribute read that does
\* not succeed
ColumnInputs ==
    DescribedColumns
    \cup {[Column(code, 5, 0, 30) EXCEPT ![f] = o] :
            code \in ColumnCodes,
            f \in {"dtype", "prec_o", "scale_o", "size_o"},
            o \in NativeOutcomes}

NextColumns ==
    \/ Establish({Success}, {"none"})
    \/ Prepare({1}, {KwSelect}, {Success})
    \/ GetAttrTypeAndSize({1}, ColumnInputs)

SpecColumns == InitStmt /\ [][NextColumns]_vars

(***************************************************************************)
(* Specification of establish on every native outcome                      *)
(***************************************************************************)

NextEstablish ==
    \/ Establish(NativeOutcomes, AllocFailures)
    \/ DropConnection

SpecEstablish == Init /\ [][NextEstablish]_vars

(***************************************************************************)
(* Specification of direct calls of define on every native outcome         *)
(***************************************************************************)

NextDefine ==
    \/ Establish({Success}, {"none"})
    \/ Prepare({1}, {KwSelect}, {Success})
    \/ Define({1}, {"SQLT_INT", "SQLT_STR", "SQLT_BLOB", "SQLT_RDD"}, {0, 2}, NativeOutcomes)

SpecDefine == InitStmt /\ [][NextDefine]_vars

(***************************************************************************)
(* Specification of several statements run on one connection               *)
(***************************************************************************)

NextRun ==
    \/ Establish({Success}, {"none"})
    \/ Prepare(StmtSlots, {KwSelect, KwInsert}, {Success})
    \/ Bind(StmtSlots, {"Integer"}, {NoValue, Some(<<1, 2, 3, 4>>)}, {Success})
    \/ Run(StmtSlots, NativeOutcomes)
    \/ DropStatement(StmtSlots, {Success})
    \/ DropConnection

SpecRun == InitStmt /\ [][NextRun]_vars

(***************************************************************************)
(* Specification of the parser and of establish on every input             *)
(***************************************************************************)

InitParse == Init0(UrlInputs)

NextParse ==
    \/ ParseDbString
    \/ Establish(NativeOutcomes, {"none"})
    \/ DropConnection

SpecParse == InitParse /\ [][NextParse]_vars

(***************************************************************************)
(* Properties of parse_db_string and of establish on its inputs            *)
(***************************************************************************)

AtSign == "@"

\* the ways to read s as oci://U/P@//H with no '/' in U or P and no '//'
\* in H: one triple <<U, P, H>> for each such reading
WellFormedReadings(s) ==
    LET n == Len(SchemePrefix)
        sep == <<AtSign>> \o DoubleSlash
    IN  IF ~StartsWith(s, SchemePrefix) THEN {}
        ELSE { <<SubSeq(s, n + 1, i - 1), SubSeq(s, i + 1, j - 1),
                 SubSeq(s, j + Len(sep), Len(s))>> :
               <<i, j>> \in { ij \in (n + 1..Len(s)) \X (n + 1..Len(s)) :
                   /\ ij[1] < ij[2]
                   /\ s[ij[1]] = "/"
                   /\ MatchAt(s, sep, ij[2])
                   /\ \A k \in (n + 1..ij[2] - 1) : k # ij[1] => s[k] # "/"
                   /\ ~Contains(SubSeq(s, ij[2] + Len(sep), Len(s)), DoubleSlash) } }

\* C1: on every connection string of the form oci://U/P@//H, with no '/' in U
\* or P and no '//' in H, parse_db_string returns Ok((U, P, H)): the user, the
\* password without the trailing '@', the host/service string as it stands.
C1_ParsesWellFormed ==
    parsed.tag # "NotCalled" =>
        \A r \in WellFormedReadings(url) : parsed = ParseOk(r[1], r[2], r[3])

\* the first documented test input has been parsed to its documented result
C1_Witness ==
    /\ url = TestUrl1
    /\ WellFormedReadings(url) # {}
    /\ parsed = ParseOk(<<"u", "s", "e", "r">>,
                        <<"p", "a", "s", "s", "w", "o", "r", "d">>,
                        SubSeq(TestUrl1, 23, Len(TestUrl1)))

\* C2: on every input that does not start with "oci://", parse_db_string
\* returns the invalid-connection-URL error and does not panic, and establish
\* returns that error having created no Environment (no handle) and made no
\* native call.
C2_BadSchemeRejected ==
    ~StartsWith(url, SchemePrefix) =>
        /\ ~panicked
        /\ parsed.tag # "NotCalled" => parsed = ParseErr("InvalidConnectionUrl")
        /\ op.name = "establish" =>
              /\ conn.state = "Failed"
              /\ conn.err = "InvalidConnectionUrl"
              /\ trace = <<>>
              /\ handles = <<>>
              /\ released = <<>>

\* an input without the scheme prefix has been parsed and then established
C2_Witness ==
    /\ ~StartsWith(url, SchemePrefix)
    /\ Len(url) > 0
    /\ parsed.tag = "Err"
    /\ op.name = "establish"
    /\ conn.state = "Failed"

\* C3: parse_db_string never crashes: on every input it returns a (user,
\* password, host) triple or a typed connection error.
C3_ParseNeverPanics ==
    /\ parsed.tag \in {"NotCalled", "Ok", "Err"}
    /\ op.name = "establish" => conn.state # "Panicked"

(***************************************************************************)
(* Handles and teardown (specification Spec)                               *)
(***************************************************************************)

\* the handles of the connection record
ConnectionHandles(c) ==
    {c.env, c.error_handle, c.service_handle, c.server_handle,
     c.session_handle, c.transaction_handle}

\* the handles that a live object still owns
Owned ==
    (IF conn.state = "Established" THEN ConnectionHandles(conn) ELSE {})
    \cup {stmts[i].inner_statement : i \in {j \in StmtSlots : stmts[j].state = "Alive"}}
    \cup UNION {{cursors[k].results[n].inner : n \in 1..Len(cursors[k].results)} :
                    k \in {j \in CursorSlots : cursors[j].state = "Alive"}}

\* how often handle h was handed to OCIHandleFree or OCIStmtRelease
ReleasesOf(h) ==
    Cardinality({j \in 1..Len(released) :
                    /\ released[j].fn \in {"OCIHandleFree", "OCIStmtRelease"}
                    /\ released[j].h = h})

\* how often the native function fn was called to release something
Count(fn) == Cardinality({j \in 1..Len(released) : released[j].fn = fn})

\* C4: every native handle that was allocated is released exactly once on
\* every exit path: a handle is unreleased while a live object owns it, and
\* released exactly once as soon as none does, whether the operation that
\* allocated it succeeded or failed.
C4_EveryHandleReleasedOnce ==
    ~panicked =>
        \A h \in 1..Len(handles) :
            ReleasesOf(h) = IF h \in Owned THEN 0 ELSE 1

\* C5: a connection shared by several statements is torn down (session end,
\* server detach, handle frees) exactly once, only after the connection
\* object and every statement prepared from it have been dropped, and no
\* statement releases its statement handle after the teardown.
C5_TeardownOnceAfterLastHolder ==
    /\ Count("OCISessionEnd") <= 1
    /\ Count("OCIServerDetach") <= 1
    /\ \A h \in ConnectionHandles(conn) \ {0} : ReleasesOf(h) <= 1
    /\ Count("OCISessionEnd") = 1 =>
          /\ ~conn.held
          /\ \A i \in StmtSlots : stmts[i].state # "Alive"
          /\ Count("OCIServerDetach") = 1
          /\ \A h \in ConnectionHandles(conn) : ReleasesOf(h) = 1
    /\ ( /\ conn.state \in {"Established", "Dropped"}
         /\ ~conn.held
         /\ \A i \in StmtSlots : stmts[i].state # "Alive" )
          => Count("OCISessionEnd") = 1
    /\ \A a, b \in 1..Len(released) :
          (a < b /\ released[b].fn = "OCIStmtRelease")
              => /\ released[a].fn \notin {"OCISessionEnd", "OCIServerDetach"}
                 /\ released[a].h \notin ConnectionHandles(conn)

\* the connection object was dropped first and the teardown ran in the drop
\* of the last of several statements
C5_Witness ==
    /\ \A i \in StmtSlots : stmts[i].state = "Dropped"
    /\ op.name = "drop_statement"
    /\ Count("OCISessionEnd") = 1
    /\ Count("OCIStmtRelease") = MaxStmts
    /\ released[Len(released)].fn = "OCIHandleFree"

(***************************************************************************)
(* Binding and preparing (specification SpecStmt)                          *)
(***************************************************************************)

\* C9: starting from a fresh statement, the N-th bind call binds at native
\* position N (1-based, +1 per call), whether or not earlier bind calls
\* returned an error.
C9_NthBindAtPositionN ==
    /\ \A i \in StmtSlots :
          /\ \A k \in 1..Len(stmts[i].bound_at) : stmts[i].bound_at[k].pos = k
          /\ stmts[i].bind_index = Len(stmts[i].bound_at)
    /\ op.name = "bind" =>
          /\ trace[1].fn = "OCIBindByPos"
          /\ trace[1].n = Len(stmts[op.slot].bound_at)

\* the second bind is at position 2 after a first bind that returned an error
C9_Witness ==
    \E i \in StmtSlots :
        /\ Len(stmts[i].bound_at) = 2
        /\ stmts[i].bound_at[1].ret = "Err"
        /\ stmts[i].bound_at[2].pos = 2
        /\ op.name = "bind"

\* the number of native prepare calls among native calls
PrepareCalls(calls) ==
    Cardinality({j \in 1..Len(calls) : calls[j].fn = "OCIStmtPrepare2"})

\* CREATE begins at one of the first 10 bytes of the text
CreateBeginsInWindow(sql) ==
    \E pos \in 1..CreateWindow : MatchAt(sql, KwCreate, pos)

\* the first native call of calls was not reported as an error: its status
\* is neither OCI_INVALID_HANDLE nor an OCI_ERROR with a diagnostic record
FirstCallPassed(calls) ==
    /\ calls[1].st # "OCI_INVALID_HANDLE"
    /\ calls[1].st = "OCI_ERROR" =>
          /\ Len(calls) >= 2
          /\ calls[2].fn = "OCIErrorGet"
          /\ calls[2].st = "OCI_NO_DATA"

\* C10 as stated: prepare makes exactly two native prepare calls when the
\* SQL text has the keyword CREATE in its first 10 characters, and exactly
\* one otherwise.
C10_TwoPreparesIffCreate ==
    op.name = "prepare" =>
        PrepareCalls(trace) = IF CreateBeginsInWindow(op.sql) THEN 2 ELSE 1

\* C10: prepare makes exactly two native prepare calls when the first native
\* prepare is not reported as an error and CREATE begins at a byte offset
\* below 10 of the SQL text, and exactly one native prepare call otherwise.
C10_TwoPreparesIffCreateAndFirstPassed ==
    op.name = "prepare" =>
        PrepareCalls(trace) =
            IF CreateBeginsInWindow(op.sql) /\ FirstCallPassed(trace) THEN 2 ELSE 1

\* a text whose CREATE begins at offset 9 was prepared twice
C10_Witness ==
    /\ op.name = "prepare"
    /\ op.sql = Pad(CreateWindow - 1) \o KwCreate
    /\ PrepareCalls(trace) = 2
    /\ stmts[1].state = "Alive"

(***************************************************************************)
(* Advancing a cursor (specification SpecCursor)                           *)
(***************************************************************************)

\* C6: once an advance returned end because the fetch reported no more
\* data, every later advance of that cursor returns end too and never
\* yields a row or an error item.
C6_EndIsTerminal ==
    \A k \in CursorSlots :
        \A a, b \in 1..Len(cursors[k].log) :
            (a < b /\ cursors[k].log[a].item = "None")
                => cursors[k].log[b].item = "None"

\* C7: whenever the native fetch of an advance reports failure, the advance
\* yields the error as its item, never a row, and the cursor is Failed: no
\* later advance yields a row.
C7_FailureIsTerminal ==
    \A k \in CursorSlots :
        \A a \in 1..Len(cursors[k].log) :
            cursors[k].log[a].fetch.st \in {"OCI_ERROR", "OCI_INVALID_HANDLE"}
                => /\ cursors[k].log[a].item = "DatabaseError"
                   /\ \A b \in (a + 1)..Len(cursors[k].log) :
                          cursors[k].log[b].item # "Row"

\* the advances of a cursor that delivered a row to the decoder
Delivered(cur) ==
    {a \in 1..Len(cur.log) : cur.log[a].item \in {"Row", "DeserializationError"}}

C11_ResolutionMatchesTable ==
    LET col == op.col
        Integers == {"SQLT_INT", "SQLT_UIN"}
        Doubles == {"SQLT_BDOUBLE", "SQLT_IBDOUBLE"}
        Singles == {"SQLT_FLT", "SQLT_BFLOAT", "SQLT_IBFLOAT"}
        Strings == {"SQLT_CHR", "SQLT_AFC", "SQLT_VCS", "SQLT_VST", "SQLT_LVC",
                    "SQLT_LNG", "SQLT_ODT", "SQLT_DATE", "SQLT_TIMESTAMP",
                    "SQLT_TIMESTAMP_TZ", "SQLT_TIMESTAMP_LTZ"}
        Width == IF col.precision = 5 THEN 2
                 ELSE IF col.precision = 10 THEN 4
                 ELSE IF col.precision = 19 THEN 8 ELSE 21
        Expected ==
            IF col.code \in Integers THEN <<"Ok", {"SQLT_INT", "SQLT_UIN"}, 8>>
            ELSE IF col.code = "SQLT_NUM" /\ col.scale = 0 THEN <<"Ok", {"SQLT_INT"}, Width>>
            ELSE IF col.code = "SQLT_NUM" THEN <<"Ok", {"SQLT_FLT"}, 8>>
            ELSE IF col.code \in Doubles THEN <<"Ok", {"SQLT_BDOUBLE"}, 8>>
            ELSE IF col.code \in Singles THEN <<"Ok", {"SQLT_BFLOAT"}, 4>>
            ELSE IF col.code \in Strings THEN <<"Ok", {"SQLT_STR"}, col.char_size>>
            ELSE <<"Unsupported", {col.code}, 0>>
    IN  ( /\ op.name = "get_attr_type_and_size"
          /\ \A f \in {"dtype", "prec_o", "scale_o", "size_o"} : GivesHandle(col[f]) )
            => /\ op.ret = Expected[1]
               /\ op.tpe \in Expected[2]
               /\ op.size = Expected[3]

(***************************************************************************)
(* Running a statement (specification SpecStmt)                            *)
(***************************************************************************)

\* C12: a statement is result-producing exactly when its SQL text contains
\* SELECT or select; the classification never changes after prepare; every
\* run passes the iteration count 0 to the native execute for a
\* result-producing statement and 1 for any other.
C12_SelectClassification ==
    [][ /\ \A i \in StmtSlots :
            /\ (stmts[i].state # "Alive" /\ stmts'[i].state = "Alive")
                  => /\ op'.name = "prepare"
                     /\ stmts'[i].is_select =
                            \E pos \in 1..Len(op'.sql) :
                                \/ MatchAt(op'.sql, KwSelect, pos)
                                \/ MatchAt(op'.sql, KwSelectLower, pos)
            /\ stmts[i].state = "Alive"
                  => stmts'[i].is_select = stmts[i].is_select
        /\ op'.name = "run"
              => /\ trace'[1].fn = "OCIStmtExecute"
                 /\ trace'[1].n = IF stmts[op'.slot].is_select THEN 0 ELSE 1
                 /\ \A j \in 2..Len(trace') : trace'[j].fn # "OCIStmtExecute"
      ]_vars

\* a result-producing statement was run with iteration count 0 after a bind
C12_Witness ==
    /\ op.name = "run"
    /\ stmts[op.slot].is_select
    /\ stmts[op.slot].bind_index > 0
    /\ trace[1].n = 0

\* C13: run returns a command-execution error whenever the native execute
\* reports a failure status; it never returns success after a failed native
\* execute.
C13_RunFailureIsError ==
    ( /\ op.name = "run"
      /\ trace[1].fn = "OCIStmtExecute"
      /\ trace[1].st \in {"OCI_ERROR", "OCI_INVALID_HANDLE"} )
        => op.ret = "Err"

(***************************************************************************)
(* Establishing (specification SpecEstablish)                              *)
(***************************************************************************)

\* C14: in establish, a failure of any native call (handle allocation,
\* server attach, attribute set, session begin) aborts establishment at once
\* with a connection error: no later establishment step is performed after
\* the failed call and no connection is returned.
C14_NativeFailureAborts ==
    LET Steps == {"OCIEnvNlsCreate", "OCIHandleAlloc", "OCINlsCharSetNameToId",
                  "OCIServerAttach", "OCIAttrSet", "OCISessionBegin"}
    IN  op.name = "establish" =>
            \A j \in 1..Len(trace) :
                ( /\ trace[j].fn \in Steps
                  /\ trace[j].st \in {"OCI_ERROR", "OCI_INVALID_HANDLE"} )
                    => /\ conn.state = "Failed"
                       /\ conn.err = "BadConnection"
                       /\ \A k \in (j + 1)..Len(trace) : trace[k].fn \notin Steps

(***************************************************************************)
(* Defining columns (specifications SpecCursor and SpecDefine)             *)
(***************************************************************************)

C19_UnsupportedBeforeRegistration ==
    ( /\ op.name = "define"
      /\ op.tpe \in {"SQLT_BLOB", "SQLT_RDD"} )
        => /\ op.ret = "Unsupported"
           /\ \A j \in 1..Len(trace) : trace[j].fn # "OCIDefineByPos"
           /\ op.fields = <<>>

(***************************************************************************)
(* Bind buffers (specification SpecStmt)                                   *)
(***************************************************************************)

\* C16: bind with a present value records an owned buffer whose length and
\* recorded size equal the value's length, with null indicator 0; bind with
\* an absent value records a zero-length buffer with recorded size 0 and
\* null indicator -1.
C16_BindBuffers ==
    /\ \A i \in StmtSlots :
          /\ Len(stmts[i].buffers) = stmts[i].bind_index
          /\ Len(stmts[i].sizes) = stmts[i].bind_index
          /\ Len(stmts[i].indicators) = stmts[i].bind_index
          /\ \A k \in 1..stmts[i].bind_index :
                /\ Len(stmts[i].buffers[k]) = stmts[i].sizes[k]
                /\ stmts[i].indicators[k] \in {0, -1}
                /\ stmts[i].indicators[k] = -1 => stmts[i].sizes[k] = 0
    /\ op.name = "bind" =>
          LET st == stmts[op.slot]
              n == st.bind_index
          IN  IF op.value.some
              THEN /\ st.buffers[n] = op.value.bytes
                   /\ st.sizes[n] = Len(op.value.bytes)
                   /\ st.indicators[n] = 0
              ELSE /\ st.buffers[n] = <<>>
                   /\ st.sizes[n] = 0
                   /\ st.indicators[n] = -1

\* a value of 4 bytes was bound after an absent value
C16_Witness ==
    /\ op.name = "bind"
    /\ op.value.some
    /\ stmts[op.slot].bind_index = 2
    /\ stmts[op.slot].sizes = <<0, 4>>
    /\ stmts[op.slot].indicators = <<-1, 0>>

(***************************************************************************)
(* The row view (specification SpecCursor)                                 *)
(***************************************************************************)

\* C17: for every indicator value a Field can hold, is_null is true exactly
\* when the indicator is -1; in the row view handed to the decoder on each
\* successful fetch, the null flag at position i is is_null of the i-th
\* Field at that moment and the byte slice at position i is the i-th Field's
\* buffer, in column order.
C17_RowViewMatchesFields ==
    /\ \A k \in CursorSlots :
          \A i \in 1..Len(cursors[k].results) :
              is_null(cursors[k].results[i]) <=> cursors[k].results[i].null_indicator = -1
    /\ (op.name = "next" /\ op.ret \in {"Row", "DeserializationError"}) =>
          LET fields == cursors[op.slot].results
          IN  /\ Len(op.row.binds) = Len(fields)
              /\ Len(op.row.is_null) = Len(fields)
              /\ \A i \in 1..Len(fields) :
                    /\ op.row.is_null[i] = (fields[i].null_indicator = -1)
                    /\ op.row.binds[i] = fields[i].buffer

\* a row of a NULL integer and a string whose indicator is 1 went to the
\* decoder
C17_Witness ==
    /\ op.name = "next"
    /\ op.ret = "Row"
    /\ Len(cursors[op.slot].results) = 2
    /\ cursors[op.slot].results[1].null_indicator = -1
    /\ cursors[op.slot].results[2].null_indicator = 1
    /\ op.row.is_null = <<TRUE, FALSE>>
    /\ Len(op.row.binds[1]) # Len(op.row.binds[2])

(***************************************************************************)
(* A failing run (specification SpecRun)                                   *)
(***************************************************************************)

\* C18: a run that fails aborts only that statement: it leaves the bind
\* index, bind buffers, sizes and indicators of every statement and the
\* handles of the connection unchanged and unreleased, so that another
\* statement can still be prepared, bound and run on the connection.
C18_FailedRunChangesNothing ==
    [][ (op'.name = "run" /\ op'.ret = "Err") =>
            /\ stmts' = stmts
            /\ conn' = conn
            /\ handles' = handles
            /\ released' = released
            /\ cursors' = cursors
            /\ ~panicked'
            /\ conn'.strong > 0
            /\ conn'.state = "Established"
            /\ \A h \in ConnectionHandles(conn) : ReleasesOf(h) = 0
            /\ ReleasesOf(stmts[op'.slot].inner_statement) = 0
      ]_vars

\* the run of a statement with a bind failed while another statement of the
\* connection is alive
C18_Witness ==
    /\ op.name = "run"
    /\ op.ret = "Err"
    /\ stmts[op.slot].bind_index = 1
    /\ stmts[op.slot].sizes = <<4>>
    /\ \E i \in StmtSlots \ {op.slot} : stmts[i].state = "Alive"
    /\ conn.state = "Established"

(***************************************************************************)
(* Release order (specification Spec)                                      *)
(***************************************************************************)

\* C20: the two handles of the Environment are released last, only after the
\* four handles of the connection, every statement handle and every define
\* handle have been released; the error handle is freed before the
\* environment handle, and no release made after the error handle is freed
\* uses it.
C20_EnvironmentReleasedLast ==
    LET Frees(types) ==
            {a \in 1..Len(released) :
                /\ released[a].fn = "OCIHandleFree"
                /\ released[a].h \in 1..Len(handles)
                /\ handles[released[a].h].htype \in types}
        Others == {h \in 1..Len(handles) :
                      handles[h].htype \notin {"OCI_HTYPE_ENV", "OCI_HTYPE_ERROR"}}
    IN  /\ \A a \in Frees({"OCI_HTYPE_ENV", "OCI_HTYPE_ERROR"}) :
              \A h \in Others :
                  \E b \in 1..(a - 1) :
                      /\ released[b].fn \in {"OCIHandleFree", "OCIStmtRelease"}
                      /\ released[b].h = h
        /\ \A a \in Frees({"OCI_HTYPE_ERROR"}), b \in Frees({"OCI_HTYPE_ENV"}) : a < b
        /\ \A a \in Frees({"OCI_HTYPE_ERROR"}) :
              \A b \in (a + 1)..Len(released) : released[b].fn = "OCIHandleFree"

(***************************************************************************)
(* Teardown of the connection (specification SpecEstablish)                *)
(***************************************************************************)

\* the OCIHandleFree calls made so far on handles that were allocated
HandleFrees ==
    {a \in 1..Len(released) :
        /\ released[a].fn = "OCIHandleFree"
        /\ released[a].h \in 1..Len(handles)}

\* C21: the teardown frees the handles in strict reverse order of their
\* creation (environment, error, server, service context, session,
\* transaction): of two frees, the earlier one is of the handle that was
\* created later, so a finished teardown has freed transaction, session,
\* service context, server, error, environment in this order.
C21_FreedInReverseOfCreation ==
    /\ \A a, b \in HandleFrees : a < b => released[a].h > released[b].h
    /\ (conn.state = "Dropped" /\ Len(handles) = 6 /\ Len(released) = 8) =>
          [a \in 1..6 |-> handles[released[a + 2].h].htype] =
              << "OCI_HTYPE_TRANS", "OCI_HTYPE_SESSION", "OCI_HTYPE_SVCCTX",
                 "OCI_HTYPE_SERVER", "OCI_HTYPE_ERROR", "OCI_HTYPE_ENV" >>

\* C23: when the connection is destroyed, each of its server, service
\* context, session and transaction handles is freed exactly once, and with
\* the handle-type tag under which establish allocated it.
C23_FourHandlesFreedOnceWithOwnTag ==
    conn.state = "Dropped" =>
        \A h \in {conn.server_handle, conn.service_handle,
                  conn.session_handle, conn.transaction_handle} \cap (1..Len(handles)) :
            /\ ReleasesOf(h) = 1
            /\ \A a \in HandleFrees :
                  released[a].h = h => released[a].tag = handles[h].htype

(***************************************************************************)
(* The bind sequences over a statement's life (specification SpecStmt)     *)
(***************************************************************************)

\* s is t, or t with entries added at its end
IsPrefix(t, s) == Len(t) <= Len(s) /\ SubSeq(s, 1, Len(t)) = t

\* C22: after any sequence of bind calls, passing or failing, the sequences
\* of bind buffers, sizes and null indicators all have the bind index as
\* their length; entry k of each (counted from 1) is what the k-th bind call
\* recorded; and while the statement lives, a step removes or changes no
\* entry: a bind call adds exactly one entry at the end of each sequence,
\* every other step leaves the sequences as they are.
C22_BindSequencesOnlyGrow ==
    [][ \A i \in StmtSlots :
          /\ stmts'[i].state = "Alive" =>
                /\ Len(stmts'[i].buffers) = stmts'[i].bind_index
                /\ Len(stmts'[i].sizes) = stmts'[i].bind_index
                /\ Len(stmts'[i].indicators) = stmts'[i].bind_index
                /\ Len(stmts'[i].bound_at) = stmts'[i].bind_index
          /\ (stmts[i].state = "Alive" /\ stmts'[i].state = "Alive") =>
                /\ IsPrefix(stmts[i].buffers, stmts'[i].buffers)
                /\ IsPrefix(stmts[i].sizes, stmts'[i].sizes)
                /\ IsPrefix(stmts[i].indicators, stmts'[i].indicators)
                /\ IF op'.name = "bind" /\ op'.slot = i
                   THEN /\ stmts'[i].bind_index = stmts[i].bind_index + 1
                        /\ stmts'[i].buffers =
                              Append(stmts[i].buffers,
                                     IF op'.value.some THEN op'.value.bytes ELSE <<>>)
                        /\ stmts'[i].sizes =
                              Append(stmts[i].sizes,
                                     IF op'.value.some THEN Len(op'.value.bytes) ELSE 0)
                        /\ stmts'[i].indicators =
                              Append(stmts[i].indicators,
                                     IF op'.value.some THEN 0 ELSE -1)
                        /\ stmts'[i].bound_at[stmts'[i].bind_index].pos
                              = stmts'[i].bind_index
                        /\ stmts'[i].bound_at[stmts'[i].bind_index].ret = op'.ret
                   ELSE /\ stmts'[i].bind_index = stmts[i].bind_index
                        /\ stmts'[i].buffers = stmts[i].buffers
                        /\ stmts'[i].sizes = stmts[i].sizes
                        /\ stmts'[i].indicators = stmts[i].indicators
      ]_vars

\* a statement was run after a bind that failed and a later bind of four
\* bytes that passed, and holds the entries of both binds
C22_Witness ==
    /\ op.name = "run"
    /\ stmts[op.slot].state = "Alive"
    /\ stmts[op.slot].bind_index = 2
    /\ stmts[op.slot].bound_at[1].ret = "Err"
    /\ stmts[op.slot].bound_at[2].ret = "Ok"
    /\ stmts[op.slot].buffers = << <<>>, <<1, 2, 3, 4>> >>
    /\ stmts[op.slot].sizes = <<0, 4>>
    /\ stmts[op.slot].indicators = <<-1, 0>>

(***************************************************************************)
(* What parse_db_string returns (specification SpecParse)                  *)
(***************************************************************************)

\* C24: on every input on which parse_db_string returns Ok, the user is the
\* part of the middle segment before its first '/', and the password is the
\* part after that '/' without its trailing '@': nothing but that delimiter
\* is dropped from the password.
C24_PasswordLosesOnlyDelimiter ==
    parsed.tag = "Ok" =>
        LET middle == Split(url, DoubleSlash)[2]
            i == Find(middle, Slash)
            rest == SubSeq(middle, i + 1, Len(middle))
        IN  /\ i > 0
            /\ parsed.user = SubSeq(middle, 1, i - 1)
            /\ parsed.password =
                  IF Len(rest) > 0 /\ rest[Len(rest)] = AtSign THEN Pop(rest) ELSE rest

====
